---- MODULE Spec2Model ----
(***************************************************************************)
(* Model of app.py: the POST /generate-learning-content handler, the       *)
(* corpus builder (extract_text_from_supabase_paths), the suffix dispatch  *)
(* (extract_text) and the prompt construction (generate_ai_response).      *)
(*                                                                         *)
(* Strings the code inspects character by character (storage paths,        *)
(* extracted texts, question_count given as a JSON string) are sequences   *)
(* of one-character strings.  The object store, the format parsers and the *)
(* generative model are the environment: every call to one of them either  *)
(* raises or returns.                                                      *)
(***************************************************************************)
EXTENDS Integers, Sequences, FiniteSets, TLC

VARIABLES
    pc,              \* position of the handler
    body,            \* the request body as received
    file_paths,      \* app.py:115
    actions,         \* app.py:116
    project_name,    \* app.py:117
    question_count,  \* app.py:118
    difficulty,      \* app.py:119
    idx,             \* position of the for loop of app.py:68 (1-based)
    file_bytes,      \* app.py:70
    tmp_name,        \* app.py:71, tmp.name
    all_text,        \* app.py:67, 77
    text,            \* app.py:121
    results,         \* app.py:132
    response,        \* what the handler returned
    calls,           \* history: the external calls of the current request
    log,             \* history: what the except clause printed (app.py:150)
    failure,         \* history: which step raised, "none" if none did
    texts            \* CorpusSpec only: the extracted texts fed to the builder

vars == <<pc, body, file_paths, actions, project_name, question_count,
          difficulty, idx, file_bytes, tmp_name, all_text, text, results,
          response, calls, log, failure, texts>>

-----------------------------------------------------------------------------
(* Bounds *)

MaxFiles == 2
MaxActions == 3
MaxTexts == 2
MaxTextLen == 2

-----------------------------------------------------------------------------
(* Sequences *)

RECURSIVE SeqsUpTo(_, _)
SeqsUpTo(S, n) ==
    IF n = 0 THEN {<<>>}
    ELSE LET shorter == SeqsUpTo(S, n - 1)
         IN  shorter \cup {Append(s, e) : s \in {t \in shorter : Len(t) = n - 1}, e \in S}

Range(s) == {s[i] : i \in DOMAIN s}

\* str.endswith
EndsWith(s, suf) ==
    /\ Len(suf) <= Len(s)
    /\ SubSeq(s, Len(s) - Len(suf) + 1, Len(s)) = suf

-----------------------------------------------------------------------------
(* Whitespace collapse: re.sub(r'\s+', ' ', all_text).strip(), app.py:78 *)

\* the characters \s and str.strip() treat as whitespace
IsSpaceNoTab(c) == c \in {" ", "\n", "\r"}
IsSpace(c) == c \in {" ", "\t", "\n", "\r"}

RECURSIVE LStrip(_)
LStrip(s) == IF s # <<>> /\ IsSpace(Head(s)) THEN LStrip(Tail(s)) ELSE s

RECURSIVE RStrip(_)
RStrip(s) ==
    IF s # <<>> /\ IsSpace(s[Len(s)]) THEN RStrip(SubSeq(s, 1, Len(s) - 1)) ELSE s

\* str.strip()
Strip(s) == RStrip(LStrip(s))

\* re.sub(r'\s+', ' ', s): each maximal run of whitespace becomes one space
RECURSIVE SubSpaces(_)
SubSpaces(s) ==
    IF s = <<>> THEN <<>>
    ELSE IF IsSpace(Head(s)) THEN <<" ">> \o SubSpaces(LStrip(Tail(s)))
    ELSE <<Head(s)>> \o SubSpaces(Tail(s))

Collapse(s) == Strip(SubSpaces(s))

\* all_text += extracted + "\n", app.py:77
AppendTextFront(acc, extracted) == extracted \o <<"\n">> \o acc
AppendText(acc, extracted) == acc \o extracted \o <<"\n">>

\* the whole of extract_text_from_supabase_paths as a function of the
\* texts its files extract to
RECURSIVE Accumulate(_, _)
Accumulate(acc, ts) ==
    IF ts = <<>> THEN acc ELSE Accumulate(AppendText(acc, Head(ts)), Tail(ts))

BuildCorpus(ts) == Collapse(Accumulate(<<>>, ts))

-----------------------------------------------------------------------------
(* Suffix dispatch *)

\* str.lower() on the characters that occur in the modelled paths
LowerIdentity(c) == c
Lower(c) ==
    CASE c = "P" -> "p"
      [] c = "D" -> "d"
      [] c = "F" -> "f"
      [] c = "T" -> "t"
      [] c = "X" -> "x"
      [] c = "C" -> "c"
      [] c = "E" -> "e"
      [] c = "O" -> "o"
      [] c = "A" -> "a"
      [] c = "B" -> "b"
      [] OTHER -> c

LowerStr(s) == [i \in DOMAIN s |-> Lower(s[i])]

\* largest index of character c in s, 0 if there is none (str.rfind + 1)
RFind(s, c) ==
    LET hits == {i \in DOMAIN s : s[i] = c}
    IN  IF hits = {} THEN 0 ELSE CHOOSE i \in hits : \A j \in hits : j <= i

\* os.path.splitext(path)[1]: from the last dot of the last path component
\* on, unless that component has nothing but dots before it
SplitExt(path) ==
    LET sep == RFind(path, "/")
        dot == RFind(path, ".")
    IN  IF dot > sep /\ \E k \in (sep + 1)..(dot - 1) : path[k] # "."
        THEN SubSeq(path, dot, Len(path))
        ELSE <<>>

\* tempfile.NamedTemporaryFile(delete=False, suffix=ext).name: directory,
\* "tmp", random characters of [a-z0-9_], then the suffix
TmpStem == <<"/", "t", "m", "p", "/", "t", "m", "p", "q", "7", "_">>
TempName(ext) == TmpStem \o ext

Pdf == <<".", "p", "d", "f">>
Docx == <<".", "d", "o", "c", "x">>
Pptx == <<".", "p", "p", "t", "x">>

\* extract_text: which parser the file at file_path is handed to
Parser(file_path) ==
    IF EndsWith(file_path, Pdf) THEN "pdf"
    ELSE IF EndsWith(file_path, Docx) THEN "docx"
    ELSE IF EndsWith(file_path, Pptx) THEN "pptx"
    ELSE "none"

-----------------------------------------------------------------------------
(* JSON values of the request body *)

JAbsent == [kind |-> "absent", n |-> 0, chars |-> <<>>, items |-> <<>>]
JNull == [kind |-> "null", n |-> 0, chars |-> <<>>, items |-> <<>>]
JInt(i) == [kind |-> "int", n |-> i, chars |-> <<>>, items |-> <<>>]
JStr(cs) == [kind |-> "str", n |-> 0, chars |-> cs, items |-> <<>>]
JList(l) == [kind |-> "list", n |-> 0, chars |-> <<>>, items |-> l]

\* dict.get(key, default)
Get(v, default) == IF v.kind = "absent" THEN default ELSE v

Digits == <<"0", "1", "2", "3", "4", "5", "6", "7", "8", "9">>
DigitValue(c) == CHOOSE d \in 0..9 : Digits[d + 1] = c
IsDigit(c) == c \in Range(Digits)

RECURSIVE DigitsValue(_)
DigitsValue(cs) ==
    IF cs = <<>> THEN 0
    ELSE 10 * DigitsValue(SubSeq(cs, 1, Len(cs) - 1)) + DigitValue(cs[Len(cs)])

IsIntLiteral(cs) ==
    LET ds == IF cs # <<>> /\ Head(cs) \in {"-", "+"} THEN Tail(cs) ELSE cs
    IN  ds # <<>> /\ \A i \in DOMAIN ds : IsDigit(ds[i])

\* int(v) returns (true) or raises (false)
CanInt(v) ==
    \/ v.kind = "int"
    \/ v.kind = "str" /\ IsIntLiteral(Strip(v.chars))

\* int(v) where it returns
IntOf(v) ==
    IF v.kind = "int" THEN v.n
    ELSE LET cs == Strip(v.chars)
         IN  IF Head(cs) = "-" THEN 0 - DigitsValue(Tail(cs))
             ELSE IF Head(cs) = "+" THEN DigitsValue(Tail(cs))
             ELSE DigitsValue(cs)

\* str(n) of an integer, as the f-strings of app.py:85 and 96 format it
RECURSIVE NatStr(_)
NatStr(n) ==
    IF n < 10 THEN <<Digits[n + 1]>> ELSE NatStr(n \div 10) \o <<Digits[(n % 10) + 1]>>

Str(n) == IF n < 0 THEN <<"-">> \o NatStr(0 - n) ELSE NatStr(n)

-----------------------------------------------------------------------------
(* Prompts: generate_ai_response, app.py:80-104 *)

DefaultCount == 5
DefaultQuestionCount == 5
Medium == <<"m", "e", "d", "i", "u", "m">>
Hard == <<"h", "a", "r", "d">>
Untitled == <<"U", "n", "t", "i", "t", "l", "e", "d", " ",
              "P", "r", "o", "j", "e", "c", "t">>
Bio == <<"B", "i", "o">>

Tasks == {"summary", "quiz", "flashcards"}

\* a prompt is its template and what the f-string substitutes into it
NoPrompt == [template |-> "none", count |-> <<>>, difficulty |-> <<>>, text |-> <<>>]

BuildPrompt(task, t, count, diff) ==
    IF task = "summary"
    THEN [template |-> "summary", count |-> <<>>, difficulty |-> <<>>, text |-> t]
    ELSE IF task = "quiz"
    THEN [template |-> "quiz", count |-> Str(count), difficulty |-> diff, text |-> t]
    ELSE IF task = "flashcards"
    THEN [template |-> "flashcards", count |-> Str(count), difficulty |-> <<>>, text |-> t]
    ELSE NoPrompt

\* the prompt the handler has generate_ai_response build for a task,
\* app.py:134, 136, 138
HandlerPrompt(task) ==
    IF task = "summary" THEN BuildPrompt("summary", text, DefaultCount, Medium)
    ELSE IF task = "quiz" THEN BuildPrompt("quiz", text, question_count, difficulty.chars)
    ELSE BuildPrompt("flashcards", text, DefaultCount, Medium)

\* the fixed order of the three ifs, app.py:133-138
NextStageSwapped(task) ==
    IF task = "summary" THEN "flashcards"
    ELSE IF task = "flashcards" THEN "quiz"
    ELSE "RESPOND"
NextStage(task) ==
    IF task = "summary" THEN "quiz"
    ELSE IF task = "quiz" THEN "flashcards"
    ELSE "RESPOND"

\* "summary" in actions
RequestedAlways(task, items) == TRUE
Requested(task, items) == task \in Range(items)

\* not text.strip(), app.py:123
IsEmptyCorpusNever(t) == FALSE
IsEmptyCorpus(t) == Strip(t) = <<>>

-----------------------------------------------------------------------------
(* Responses *)

NoResponse ==
    [status |-> 0, fields |-> {}, success |-> FALSE, error |-> "",
     project_name |-> JAbsent, results |-> <<>>]

\* app.py:125-129 and 143-147; jsonify answers with status 200
SuccessResponse(name, res) ==
    [status |-> 200, fields |-> {"success", "project_name", "results"},
     success |-> TRUE, error |-> "", project_name |-> name, results |-> res]

\* app.py:151
ErrorResponseDetail(e) ==
    [status |-> 500, fields |-> {"success", "error"}, success |-> FALSE,
     error |-> e, project_name |-> JAbsent, results |-> <<>>]
ErrorResponse(e) ==
    [status |-> 500, fields |-> {"success", "error"}, success |-> FALSE,
     error |-> "Processing failed", project_name |-> JAbsent, results |-> <<>>]

-----------------------------------------------------------------------------
(* The environment: object store, requests *)

PathA == <<"a", ".", "p", "d", "f">>
PathB == <<"B", ".", "D", "O", "C", "X">>
PathC == <<"c", ".", "p", "p", "t", "x">>
PathDot == <<".", "p", "d", "f">>

Paths == {PathA, PathB, PathC, PathDot}

\* the text the matching parser recovers from the object stored under a path
Stored(path) ==
    CASE path = PathA -> <<"a", " ", " ", "a">>
      [] path = PathB -> <<"\t", "b">>
      [] path = PathC -> <<"\n">>
      [] OTHER -> <<"d">>

ActionNames == Tasks \cup {"notes"}

Replies == {"reply"}

FilePathValues == {JAbsent, JNull} \cup {JList(l) : l \in SeqsUpTo(Paths, MaxFiles)}
ActionValues == {JAbsent, JNull} \cup {JList(l) : l \in SeqsUpTo(ActionNames, MaxActions)}
\* project_name, question_count and difficulty of a request: all omitted, all
\* given, question_count as a string of digits, as a string int() rejects
Params ==
    {<<JAbsent, JAbsent, JAbsent>>,
     <<JStr(Bio), JInt(3), JStr(Hard)>>,
     <<JStr(Bio), JStr(<<"1", "2">>), JAbsent>>,
     <<JAbsent, JStr(<<"x">>), JStr(Hard)>>}

Body(k, fp, ac, pn, qc, df) ==
    [kind |-> k, file_paths |-> fp, actions |-> ac, project_name |-> pn,
     question_count |-> qc, difficulty |-> df]

NoBody == Body("none", JAbsent, JAbsent, JAbsent, JAbsent, JAbsent)

\* bodies request.get_json() raises on or returns a non-dict for
NonObjects == {Body(k, JAbsent, JAbsent, JAbsent, JAbsent, JAbsent) :
                  k \in {"invalid", "array", "null"}}

Objects == {Body("object", fp, ac, p[1], p[2], p[3]) :
               fp \in FilePathValues, ac \in ActionValues, p \in Params}

Bodies == NonObjects \cup Objects

-----------------------------------------------------------------------------
(* History of external calls *)

DownloadCall(path) == [op |-> "download", path |-> path, parser |-> "", prompt |-> NoPrompt]
ExtractCall(path, p) == [op |-> "extract", path |-> path, parser |-> p, prompt |-> NoPrompt]
GenerateCall(pr) == [op |-> "generate", path |-> <<>>, parser |-> "", prompt |-> pr]

-----------------------------------------------------------------------------
(* The request handler, app.py:111-151 *)

Locals == <<file_paths, actions, project_name, question_count, difficulty>>
Builder == <<idx, file_bytes, tmp_name, all_text>>

Init ==
    /\ pc = "IDLE"
    /\ body = NoBody
    /\ file_paths = JAbsent
    /\ actions = JAbsent
    /\ project_name = JAbsent
    /\ question_count = 0
    /\ difficulty = JAbsent
    /\ idx = 1
    /\ file_bytes = <<>>
    /\ tmp_name = <<>>
    /\ all_text = <<>>
    /\ text = <<>>
    /\ results = <<>>
    /\ response = NoResponse
    /\ calls = <<>>
    /\ log = <<>>
    /\ failure = "none"
    /\ texts = <<>>

\* an exception reaches the except clause: app.py:149-151
Raise(kind, detail) ==
    /\ log' = Append(log, detail)
    /\ failure' = kind
    /\ response' = ErrorResponse(detail)
    /\ pc' = "DONE"

\* a request arrives.  Requests share no mutable state (the module-level
\* objects of app.py:16-31 are never assigned again), so one request is
\* followed from arrival to response.
Receive ==
    /\ pc = "IDLE"
    /\ pc' = "RECEIVED"
    /\ body' \in Bodies
    /\ file_paths' = JAbsent
    /\ actions' = JAbsent
    /\ project_name' = JAbsent
    /\ question_count' = 0
    /\ difficulty' = JAbsent
    /\ idx' = 1
    /\ file_bytes' = <<>>
    /\ tmp_name' = <<>>
    /\ all_text' = <<>>
    /\ text' = <<>>
    /\ results' = <<>>
    /\ response' = NoResponse
    /\ calls' = <<>>
    /\ log' = <<>>
    /\ failure' = "none"
    /\ UNCHANGED texts

\* int(data.get("question_count", 5)), app.py:118
QuestionCountZeroDefault(data) == IntOf(Get(data.question_count, JInt(0)))
QuestionCount(data) == IntOf(Get(data.question_count, JInt(DefaultQuestionCount)))

\* app.py:114-119 run through; all_text = "" and the loop head follow
ParseOk ==
    /\ pc = "RECEIVED"
    /\ body.kind = "object"
    /\ CanInt(Get(body.question_count, JInt(DefaultQuestionCount)))
    /\ file_paths' = Get(body.file_paths, JList(<<>>))
    /\ actions' = Get(body.actions, JList(<<>>))
    /\ project_name' = Get(body.project_name, JStr(Untitled))
    /\ question_count' = QuestionCount(body)
    /\ difficulty' = Get(body.difficulty, JStr(Medium))
    /\ all_text' = <<>>
    /\ idx' = 1
    /\ pc' = "LOOP"
    /\ UNCHANGED <<body, file_bytes, tmp_name, text, results, response, calls,
                   log, failure, texts>>

\* get_json() raises or returns no dict (app.py:114-115), or int() raises
\* (app.py:118)
ParseFail ==
    /\ pc = "RECEIVED"
    /\ \/ /\ body.kind # "object"
          /\ Raise("request", "bad request body")
       \/ /\ body.kind = "object"
          /\ ~CanInt(Get(body.question_count, JInt(DefaultQuestionCount)))
          /\ Raise("request", "int() failed")
    /\ UNCHANGED <<body, Locals, Builder, text, results, calls, texts>>

\* for path in file_paths, with file_paths no list: app.py:68
LoopFail ==
    /\ pc = "LOOP"
    /\ file_paths.kind # "list"
    /\ Raise("request", "file_paths is not iterable")
    /\ UNCHANGED <<body, Locals, Builder, text, results, calls, texts>>

\* app.py:69-73, the download returns
DownloadOk ==
    /\ pc = "LOOP"
    /\ file_paths.kind = "list"
    /\ idx <= Len(file_paths.items)
    /\ LET path == file_paths.items[idx]
           ext == LowerStr(SplitExt(path))
       IN  /\ calls' = Append(calls, DownloadCall(path))
           /\ file_bytes' = Stored(path)
           /\ tmp_name' = TempName(ext)
    /\ pc' = "EXTRACT"
    /\ UNCHANGED <<body, Locals, idx, all_text, text, results, response, log,
                   failure, texts>>

\* app.py:70, the download raises
DownloadFail ==
    /\ pc = "LOOP"
    /\ file_paths.kind = "list"
    /\ idx <= Len(file_paths.items)
    /\ calls' = Append(calls, DownloadCall(file_paths.items[idx]))
    /\ Raise("download", "storage error")
    /\ UNCHANGED <<body, Locals, Builder, text, results, texts>>

\* app.py:74-77: extract_text(tmp.name) returns
ExtractOk ==
    /\ pc = "EXTRACT"
    /\ LET p == Parser(tmp_name)
           extracted == IF p = "none" THEN <<>> ELSE file_bytes
       IN  /\ calls' = Append(calls, ExtractCall(file_paths.items[idx], p))
           /\ all_text' = AppendText(all_text, extracted)
    /\ idx' = idx + 1
    /\ pc' = "LOOP"
    /\ UNCHANGED <<body, Locals, file_bytes, tmp_name, text, results, response,
                   log, failure, texts>>

\* app.py:74: the parser extract_text chose raises
ExtractFail ==
    /\ pc = "EXTRACT"
    /\ Parser(tmp_name) # "none"
    /\ calls' = Append(calls, ExtractCall(file_paths.items[idx], Parser(tmp_name)))
    /\ Raise("extract", "parse error")
    /\ UNCHANGED <<body, Locals, Builder, text, results, texts>>

\* app.py:78 returns a corpus that app.py:123 finds empty: app.py:124-129
EmptyCorpus ==
    /\ pc = "LOOP"
    /\ file_paths.kind = "list"
    /\ idx > Len(file_paths.items)
    /\ text' = Collapse(all_text)
    /\ IsEmptyCorpus(text')
    /\ response' = SuccessResponse(project_name, <<>>)
    /\ pc' = "DONE"
    /\ UNCHANGED <<body, Locals, Builder, results, calls, log, failure, texts>>

\* app.py:78 returns a corpus that app.py:123 finds non-empty: app.py:132
StartGeneration ==
    /\ pc = "LOOP"
    /\ file_paths.kind = "list"
    /\ idx > Len(file_paths.items)
    /\ text' = Collapse(all_text)
    /\ ~IsEmptyCorpus(text')
    /\ results' = <<>>
    /\ pc' = "summary"
    /\ UNCHANGED <<body, Locals, Builder, response, calls, log, failure, texts>>

\* "summary" in actions, with actions no container: app.py:133
MembershipFail(task) ==
    /\ pc = task
    /\ actions.kind # "list"
    /\ Raise("request", "actions is not iterable")
    /\ UNCHANGED <<body, Locals, Builder, text, results, calls, texts>>

\* the if of app.py:133, 135 or 137 is false
SkipTask(task) ==
    /\ pc = task
    /\ actions.kind = "list"
    /\ ~Requested(task, actions.items)
    /\ pc' = NextStage(task)
    /\ UNCHANGED <<body, Locals, Builder, text, results, response, calls, log,
                   failure, texts>>

\* app.py:134, 136 or 138 with model.generate_content returning: app.py:106-108
GenerateOk(task, reply) ==
    /\ pc = task
    /\ actions.kind = "list"
    /\ Requested(task, actions.items)
    /\ calls' = Append(calls, GenerateCall(HandlerPrompt(task)))
    /\ results' = [k \in DOMAIN results \cup {task} |->
                      IF k = task THEN reply ELSE results[k]]
    /\ pc' = NextStage(task)
    /\ UNCHANGED <<body, Locals, Builder, text, response, log, failure, texts>>

\* app.py:106-107: the generation call raises
GenerateFailPartial(task) ==
    /\ pc = task
    /\ actions.kind = "list"
    /\ Requested(task, actions.items)
    /\ calls' = Append(calls, GenerateCall(HandlerPrompt(task)))
    /\ log' = Append(log, "generation error")
    /\ failure' = "generate"
    /\ response' = SuccessResponse(project_name, results)
    /\ pc' = "DONE"
    /\ UNCHANGED <<body, Locals, Builder, text, results, texts>>
GenerateFail(task) ==
    /\ pc = task
    /\ actions.kind = "list"
    /\ Requested(task, actions.items)
    /\ calls' = Append(calls, GenerateCall(HandlerPrompt(task)))
    /\ Raise("generate", "generation error")
    /\ UNCHANGED <<body, Locals, Builder, text, results, texts>>

\* app.py:143-147
Respond ==
    /\ pc = "RESPOND"
    /\ response' = SuccessResponse(project_name, results)
    /\ pc' = "DONE"
    /\ UNCHANGED <<body, Locals, Builder, text, results, calls, log, failure, texts>>

Next ==
    \/ Receive
    \/ ParseOk
    \/ ParseFail
    \/ LoopFail
    \/ DownloadOk
    \/ DownloadFail
    \/ ExtractOk
    \/ ExtractFail
    \/ EmptyCorpus
    \/ StartGeneration
    \/ \E task \in Tasks : MembershipFail(task)
    \/ \E task \in Tasks : SkipTask(task)
    \/ \E task \in Tasks, reply \in Replies : GenerateOk(task, reply)
    \/ \E task \in Tasks : GenerateFail(task)
    \/ Respond

Spec == Init /\ [][Next]_vars

-----------------------------------------------------------------------------
(* The corpus builder on arbitrary extracted texts, app.py:66-78 *)

\* the text of the i-th file: its own marker letter and whitespace
Markers == <<"a", "b", "c", "d">>
TextAlphabet(i) == {Markers[i], " ", "\t"}

ExtractedTexts(i) == SeqsUpTo(TextAlphabet(i), MaxTextLen)

RECURSIVE TextLists(_)
TextLists(n) ==
    IF n = 0 THEN {<<>>}
    ELSE LET shorter == TextLists(n - 1)
         IN  shorter \cup {Append(ts, t) : ts \in {x \in shorter : Len(x) = n - 1},
                                           t \in ExtractedTexts(n)}

CorpusInit ==
    /\ pc = "CB_LOOP"
    /\ texts \in TextLists(MaxTexts)
    /\ body = NoBody
    /\ file_paths = JAbsent
    /\ actions = JAbsent
    /\ project_name = JAbsent
    /\ question_count = 0
    /\ difficulty = JAbsent
    /\ idx = 1
    /\ file_bytes = <<>>
    /\ tmp_name = <<>>
    /\ all_text = <<>>
    /\ text = <<>>
    /\ results = <<>>
    /\ response = NoResponse
    /\ calls = <<>>
    /\ log = <<>>
    /\ failure = "none"

Rest == <<body, Locals, file_bytes, tmp_name, results, response, calls, log,
          failure, texts>>

\* app.py:77 for the next file
CorpusAppend ==
    /\ pc = "CB_LOOP"
    /\ idx <= Len(texts)
    /\ all_text' = AppendText(all_text, texts[idx])
    /\ idx' = idx + 1
    /\ UNCHANGED <<pc, text, Rest>>

\* app.py:78
CorpusReturn ==
    /\ pc = "CB_LOOP"
    /\ idx > Len(texts)
    /\ text' = Collapse(all_text)
    /\ pc' = "CB_DONE"
    /\ UNCHANGED <<idx, all_text, Rest>>

\* the collapse of app.py:78 applied to a corpus it returned
CorpusCollapseAgain ==
    /\ pc = "CB_DONE"
    /\ text' = Collapse(text)
    /\ pc' = "CB_AGAIN"
    /\ UNCHANGED <<idx, all_text, Rest>>

CorpusNext == CorpusAppend \/ CorpusReturn \/ CorpusCollapseAgain

CorpusSpec == CorpusInit /\ [][CorpusNext]_vars

-----------------------------------------------------------------------------
(* Vocabulary of the properties *)

IsPrefix(s, t) == Len(s) <= Len(t) /\ SubSeq(t, 1, Len(s)) = s

\* what the request asked for
ReqPaths == IF body.file_paths.kind = "list" THEN body.file_paths.items ELSE <<>>
ReqActions == IF body.actions.kind = "list" THEN Range(body.actions.items) ELSE {}

\* the corpus builder has returned to the handler
Built == file_paths.kind = "list" /\ idx > Len(file_paths.items) /\ pc # "LOOP"

WhiteChars == {" ", "\t", "\n"}
AllWhite(s) == \A i \in DOMAIN s : s[i] \in WhiteChars

GenerateCalls == {i \in DOMAIN calls : calls[i].op = "generate"}
GenerateCallsFor(task) == {i \in GenerateCalls : calls[i].prompt.template = task}

FailureBody ==
    /\ response.status = 500
    /\ response.success = FALSE
    /\ response.error = "Processing failed"
    /\ response.fields = {"success", "error"}
    /\ response.results = <<>>

-----------------------------------------------------------------------------
(* Properties of the handler *)

\* C1: once the corpus builder has returned an empty or whitespace-only
\* corpus, whatever actions were requested, no generation call has been
\* issued and the handler has answered 200 with success = true and an empty
\* results mapping.
C1_EmptyCorpusSkipsGeneration ==
    (Built /\ AllWhite(text)) =>
        /\ GenerateCalls = {}
        /\ pc = "DONE"
        /\ response.status = 200
        /\ response.success = TRUE
        /\ "results" \in response.fields
        /\ response.results = <<>>

\* a whitespace-only accumulator, actions requested, generation skipped
C1_Witness ==
    /\ Built
    /\ all_text # <<>>
    /\ AllWhite(text)
    /\ "summary" \in ReqActions
    /\ response.status = 200

\* C2: whichever step raised (request parsing, download, extraction,
\* generation), the answer is status 500 with success = false, the error
\* "Processing failed" and no results field; the exception detail is in the
\* log and not in the response.
C2_FailureIsGeneric500 ==
    failure # "none" =>
        /\ pc = "DONE"
        /\ FailureBody
        /\ log # <<>>
        /\ response.error \notin Range(log)

\* the download of the second file raised after the first file went through
C2_Witness ==
    /\ failure = "download"
    /\ idx = 2
    /\ response.status = 500

\* C3: when a generation call raises after earlier generation calls of the
\* same request returned, the request fails and the response carries none of
\* the results already produced.
C3_NoPartialResults ==
    (failure = "generate" /\ DOMAIN results # {}) =>
        /\ response.status = 500
        /\ response.success = FALSE
        /\ "results" \notin response.fields
        /\ response.results = <<>>

\* flashcards raised after summary and quiz returned
C3_Witness ==
    /\ failure = "generate"
    /\ DOMAIN results = {"summary", "quiz"}
    /\ pc = "DONE"

\* C4: a request with a non-empty corpus whose generation calls all return
\* answers with results whose keys are exactly the requested actions among
\* summary, quiz and flashcards, each obtained by exactly one generation call.
C4_ResultKeysAreRequestedTasks ==
    (pc = "DONE" /\ failure = "none" /\ Built /\ ~AllWhite(text)) =>
        /\ response.status = 200
        /\ DOMAIN response.results = ReqActions \cap Tasks
        /\ \A task \in ReqActions \cap Tasks : Cardinality(GenerateCallsFor(task)) = 1
        /\ Cardinality(GenerateCalls) = Cardinality(ReqActions \cap Tasks)

\* an unknown action and a repeated known action were requested
C4_Witness ==
    /\ pc = "DONE"
    /\ failure = "none"
    /\ ~AllWhite(text)
    /\ body.actions.items = <<"notes", "quiz", "quiz">>
    /\ DOMAIN response.results = {"quiz"}

\* the external calls of a request that runs through, in order
RECURSIVE FileCalls(_)
FileCalls(paths) ==
    IF paths = <<>> THEN <<>>
    ELSE <<<<"download", Head(paths), "none">>, <<"extract", Head(paths), "none">>>>
         \o FileCalls(Tail(paths))

TaskCalls ==
    LET wanted(task) == task \in ReqActions
        order == SelectSeq(<<"summary", "quiz", "flashcards">>, wanted)
    IN  [i \in DOMAIN order |-> <<"generate", <<>>, order[i]>>]

CallTrace == [i \in DOMAIN calls |-> <<calls[i].op, calls[i].path, calls[i].prompt.template>>]

\* C5: the external calls of a request are, in this order, a download and
\* then an extraction per entry of file_paths in file_paths order, followed
\* by the generation calls in the order summary, quiz, flashcards whatever
\* order the caller listed them in; a request that raises stops somewhere
\* along this sequence, one that runs through has made all of it.
C5_CallsAreSequentialAndOrdered ==
    /\ IsPrefix(CallTrace, FileCalls(ReqPaths) \o TaskCalls)
    /\ (pc = "DONE" /\ failure = "none") =>
          CallTrace = IF AllWhite(text) THEN FileCalls(ReqPaths)
                      ELSE FileCalls(ReqPaths) \o TaskCalls

\* two files, the three actions listed in reverse order
C5_Witness ==
    /\ pc = "DONE"
    /\ failure = "none"
    /\ Len(ReqPaths) = 2
    /\ body.actions.items = <<"flashcards", "quiz", "summary">>
    /\ Len(calls) = 7

\* the question count of the request, as an integer
RequestCount ==
    IF body.question_count.kind = "int" THEN body.question_count.n
    ELSE IF body.question_count = JStr(<<"1", "2">>) THEN 12
    ELSE 5

RequestDifficulty ==
    IF body.difficulty.kind = "str" THEN body.difficulty.chars ELSE Medium

\* C7: every quiz prompt sent to the generation client asks for the
\* request's question_count questions at the request's difficulty, and every
\* flashcards prompt asks for the request's question_count flashcards.
C7_PromptsCarryRequestValues ==
    \A i \in GenerateCalls :
        /\ calls[i].prompt.template = "quiz" =>
              /\ calls[i].prompt.count = Str(RequestCount)
              /\ calls[i].prompt.difficulty = RequestDifficulty
        /\ calls[i].prompt.template = "flashcards" =>
              calls[i].prompt.count = Str(RequestCount)

\* the suffix of a storage path as the claim reads it: the path ends in it
SuffixParser(path) ==
    IF EndsWith(path, Pdf) THEN "pdf"
    ELSE IF EndsWith(path, Docx) THEN "docx"
    ELSE IF EndsWith(path, Pptx) THEN "pptx"
    ELSE "none"

\* the same letter, whatever its case
SameLetter(c, l) ==
    \/ c = l
    \/ <<c, l>> \in {<<"P", "p">>, <<"D", "d">>, <<"F", "f">>, <<"O", "o">>,
                     <<"C", "c">>, <<"X", "x">>, <<"T", "t">>}

\* path has the extension ext in any case: it ends in ext, and its last
\* component has a character other than a dot before that
HasExtension(path, ext) ==
    LET n == Len(path) - Len(ext)
    IN  /\ n >= 1
        /\ \A i \in DOMAIN ext : SameLetter(path[n + i], ext[i])
        /\ \E k \in 1..n : path[k] # "." /\ \A j \in k..n : path[j] # "/"

ExtensionParser(path) ==
    IF HasExtension(path, Pdf) THEN "pdf"
    ELSE IF HasExtension(path, Docx) THEN "docx"
    ELSE IF HasExtension(path, Pptx) THEN "pptx"
    ELSE "none"

ExtractCalls == {i \in DOMAIN calls : calls[i].op = "extract"}

\* C8 as stated: a downloaded file goes to the PDF, DOCX or PPTX parser
\* exactly when its storage path ends in .pdf, .docx or .pptx.
C8_ParserIffPathSuffix ==
    \A i \in ExtractCalls : calls[i].parser = SuffixParser(calls[i].path)

\* C8 amended: a downloaded file goes to the PDF, DOCX or PPTX parser exactly
\* when the extension of its storage path (os.path.splitext), lower-cased, is
\* .pdf, .docx or .pptx; a file with any other extension reaches no parser,
\* adds no text and raises nothing in extraction, and a request all of whose
\* files are such ends in the successful empty-results response unless a
\* download raises.
C8_ParserIffLoweredExtension ==
    /\ \A i \in ExtractCalls : calls[i].parser = ExtensionParser(calls[i].path)
    /\ failure = "extract" => ExtensionParser(calls[Len(calls)].path) # "none"
    /\ (Built /\ \A i \in DOMAIN ReqPaths : ExtensionParser(ReqPaths[i]) = "none") =>
          /\ AllWhite(all_text)
          /\ text = <<>>
          /\ pc = "DONE"
          /\ response.status = 200
          /\ response.success = TRUE
          /\ response.results = <<>>

\* an upper-case .DOCX went to the DOCX parser
C8_Witness ==
    /\ \E i \in ExtractCalls : calls[i].path = PathB /\ calls[i].parser = "docx"
    /\ Built
    /\ text = <<"b">>

BadCounts == {JStr(<<"x">>)}

OptionalsOmitted ==
    /\ body.kind = "object"
    /\ body.actions = JAbsent
    /\ body.project_name = JAbsent
    /\ body.question_count = JAbsent
    /\ body.difficulty = JAbsent

\* C10: a body that is no JSON object, or a question_count int() rejects,
\* ends in the 500 response with no download and no generation call issued;
\* a request that omits the optional fields does not fail for it and runs
\* with question_count 5, difficulty "medium" and no actions.
C10_ParseBeforeCallsAndDefaults ==
    /\ (pc # "IDLE" /\ (body.kind # "object" \/ body.question_count \in BadCounts)) =>
          /\ calls = <<>>
          /\ pc = "DONE" => (failure = "request" /\ FailureBody)
          /\ pc \in {"RECEIVED", "DONE"}
    /\ (OptionalsOmitted /\ pc \notin {"IDLE", "RECEIVED"}) =>
          /\ question_count = 5
          /\ difficulty = JStr(Medium)
          /\ actions = JList(<<>>)
          /\ body.file_paths # JNull => failure # "request"
          /\ GenerateCalls = {}

\* question_count "x" with two files requested: failed, nothing downloaded
C10_Witness ==
    /\ pc = "DONE"
    /\ body.question_count = JStr(<<"x">>)
    /\ Len(ReqPaths) = 2
    /\ response.status = 500

-----------------------------------------------------------------------------
(* Properties of the corpus builder *)

NonSpace(s) == SelectSeq(s, LAMBDA c : c \notin WhiteChars)

RECURSIVE Flatten(_)
Flatten(ts) == IF ts = <<>> THEN <<>> ELSE Head(ts) \o Flatten(Tail(ts))

Positions(s, c) == {i \in DOMAIN s : s[i] = c}

\* every c1 of s lies before every c2 of s, and both occur
AllBefore(s, c1, c2) ==
    /\ Positions(s, c1) # {}
    /\ Positions(s, c2) # {}
    /\ \A i \in Positions(s, c1), j \in Positions(s, c2) : i < j

\* two files, the first marked "a" and the second marked "b"
MarkedAThenB ==
    /\ Len(texts) = 2
    /\ "a" \in Range(texts[1]) /\ "b" \notin Range(texts[1])
    /\ "b" \in Range(texts[2]) /\ "a" \notin Range(texts[2])

\* C6: the characters of the corpus other than whitespace are those of the
\* extracted texts in file_paths order; with two files marked "a" and "b" the
\* marker of the first file lies before the marker of the second, and the
\* builder run on the swapped list puts them the other way round.
C6_CorpusKeepsFileOrder ==
    pc = "CB_DONE" =>
        /\ NonSpace(text) = NonSpace(Flatten(texts))
        /\ MarkedAThenB =>
              /\ AllBefore(text, "a", "b")
              /\ AllBefore(BuildCorpus(<<texts[2], texts[1]>>), "b", "a")

C6_Witness ==
    /\ pc = "CB_DONE"
    /\ MarkedAThenB
    /\ text = <<"a", " ", "b">>

\* no whitespace at either end, no whitespace but the space, no two spaces
\* in a row
IsCollapsed(s) ==
    /\ s # <<>> => (s[1] \notin WhiteChars /\ s[Len(s)] \notin WhiteChars)
    /\ \A i \in DOMAIN s : s[i] \in WhiteChars => s[i] = " "
    /\ \A i \in 1..(Len(s) - 1) : ~(s[i] = " " /\ s[i + 1] = " ")

\* C9: a corpus returned by the builder is collapsed, and collapsing it
\* again returns it unchanged.
C9_CollapseIsIdempotent ==
    /\ pc \in {"CB_DONE", "CB_AGAIN"} => IsCollapsed(text)
    /\ pc = "CB_DONE" => Collapse(text) = text
    /\ pc = "CB_AGAIN" => text = Collapse(all_text)

\* a tab inside a text, whitespace at both ends, collapsed twice
C9_Witness ==
    /\ pc = "CB_AGAIN"
    /\ texts = <<<<" ", "a">>, <<"\t", "b">>>>
    /\ text = <<"a", " ", "b">>

====
